---- MODULE Spec2Model ----
(***************************************************************************)
(* Expense tracker: the fraud-screening engine (FraudDetector) and the     *)
(* expense handlers that call it; the rate limiter of the authentication   *)
(* routes; the Database connection with its retries.                       *)
(*                                                                         *)
(* Representation.                                                         *)
(*   - Instants (Date values) are integers counting minutes.               *)
(*   - Amounts (JS numbers with at most two decimals) are integers         *)
(*     counting cents; Units(n) is the whole amount n.                     *)
(*   - Text is a TLA+ string; a description, which the store matches as a  *)
(*     regular expression, is a sequence of one-character strings.         *)
(*   - An optional value (undefined / null in the code) is <<>> or <<v>>.  *)
(*   - The outcome of an async call is Return(v) or Throw.                 *)
(***************************************************************************)
EXTENDS Integers, Sequences, FiniteSets, TLC

VARIABLES
    expenses,   \* the Expense collection: its documents in insertion order
    now,        \* the wall clock, Date.now()
    nextId,     \* the next fresh ObjectId
    last,       \* the last handler run: its inputs, what it screened, its answer
    inflight,   \* the requests being served, each at one of its awaits
    requests,   \* authRateLimit: per limiter and address, the times it holds
    admitted,   \* history: per limiter and address, every time passed to next
    retryCount, \* Database.retryCount
    isConnected,\* Database.isConnected
    pending,    \* Database: the timers and connection attempts in flight
    exitCode,   \* the code of process.exit, once called
    history     \* history of the Database: calls, retries, successes, events

limiterState == <<requests, admitted>>
databaseState == <<retryCount, isConnected, pending, exitCode, history>>

vars == <<expenses, now, nextId, last, inflight, limiterState, databaseState>>

-----------------------------------------------------------------------------
(* Bounds of the model *)

MaxExpenses == 2        \* documents ever saved, specification Spec
MaxBurst == 6           \* documents ever saved, specification SpecBurst
MaxSolo == 2            \* documents ever saved, specification SpecAmounts
MaxSimilar == 4         \* documents ever saved, specification SpecSimilar
MaxSteps == 3           \* submissions ever begun, specification SpecSteps
MaxInFlight == 2        \* submissions served at a time, specification SpecSteps
MaxEvidence == 3        \* documents ever saved, specification SpecEvidence
MaxEdits == 2           \* documents ever saved, specification SpecEdits
MaxRaces == 1           \* documents ever saved, specification SpecRaces
MaxRacing == 2          \* requests served at a time, specification SpecRaces
MaxAdmitted == 7        \* requests ever admitted, specification SpecLimiter
MaxSuccesses == 1       \* connections ever established, specification SpecDatabase
MaxEvents == 2          \* error and disconnected events, specification SpecDatabase
MaxReview == 2          \* documents ever saved, specification SpecReview

-----------------------------------------------------------------------------
(* Program constants *)

DuplicateWindow == 60       \* timeWindow of checkDuplicateAmounts, minutes
RapidWindow == 30           \* timeWindow of checkRapidSubmissions, minutes
RapidLimit == 5             \* recentExpenses.length >= 5
SimilarLimit == 2           \* similarExpenses.length > 2
SimilarWindow == 10080      \* 7 * 24 * 60 minutes
HIGH_AMOUNT_THRESHOLD == 1000
VERY_HIGH_AMOUNT_THRESHOLD == 5000

-----------------------------------------------------------------------------
(* Values *)

None == <<>>
Some(v) == <<v>>
OrElse(opt, dflt) == IF opt = None THEN dflt ELSE opt[1]

Return(v) == [kind |-> "return", value |-> v]
Throw == [kind |-> "throw"]
NotRun == [kind |-> "none"]

Units(n) == n * 100

Abs(x) == IF x < 0 THEN 0 - x ELSE x

\* NumStr printing two decimals always, as toFixed(2) does.
NumStr_twoDecimals(amount) ==
    ToString(amount \div 100) \o "."
    \o (IF amount % 100 < 10 THEN "0" ELSE "") \o ToString(amount % 100)

\* Number.prototype.toString of an amount, as a template literal prints it:
\* 5500 -> "5500", 125.5 -> "125.5", 0.07 -> "0.07".
NumStr(amount) ==
    LET whole == amount \div 100
        frac == amount % 100
    IN  IF frac = 0 THEN ToString(whole)
        ELSE IF frac % 10 = 0 THEN ToString(whole) \o "." \o ToString(frac \div 10)
        ELSE IF frac < 10 THEN ToString(whole) \o ".0" \o ToString(frac)
        ELSE ToString(whole) \o "." \o ToString(frac)

\* A JS value that is a number here and a string there.
Num(n) == [type |-> "number", value |-> n]
Str(text) == [type |-> "string", value |-> text]

\* ((numer / denom) * 100).toFixed(2), denom > 0.  The quotient is rounded
\* to the nearest hundredth; for the counts of the model no quotient lies
\* halfway between two hundredths.
ToFixed2(numer, denom) ==
    LET hundredths == (2 * numer * 10000 + denom) \div (2 * denom)
        frac == hundredths % 100
    IN  ToString(hundredths \div 100) \o "."
        \o (IF frac < 10 THEN "0" ELSE "") \o ToString(frac)

\* The JS remainder amount % n for a whole n, in cents.
Rem(amount, n) == amount % Units(n)

\* Array.prototype.join
RECURSIVE Join(_, _)
Join(parts, sep) ==
    IF Len(parts) = 0 THEN ""
    ELSE IF Len(parts) = 1 THEN parts[1]
    ELSE parts[1] \o sep \o Join(Tail(parts), sep)

\* Array.prototype.map over a sequence
Map(seq, F(_)) == [i \in DOMAIN seq |-> F(seq[i])]

-----------------------------------------------------------------------------
(* The store's query interface (mongoose Model.find) *)

\* Lower-case of one character (the regex option "i").
Lower(c) ==
    CASE c = "A" -> "a"
      [] c = "B" -> "b"
      [] OTHER -> c

\* One pattern character against one text character: "." matches any
\* character, any other character matches itself, ignoring case.
CharMatches(p, c) == p = "." \/ Lower(p) = Lower(c)

\* { $regex: pattern, $options: "i" }: the pattern matches somewhere in text.
RegexMatch(pattern, text) ==
    \E start \in 0 .. (Len(text) - Len(pattern)) :
        \A i \in 1 .. Len(pattern) : CharMatches(pattern[i], text[start + i])

\* Whether the store can compile the pattern.  Over the characters of the
\* model a "(" is never closed, so a pattern that holds one is invalid.
ValidRegex(pattern) == \A i \in DOMAIN pattern : pattern[i] # "("

\* Expense.find(filter): rejects when the store fails, else the matches.
ExpenseFind(coll, Filter(_), failed) ==
    IF failed THEN Throw
    ELSE Return(SelectSeq(coll, Filter))

-----------------------------------------------------------------------------
(* FraudDetector *)

\* duplicateQuery with the window's bounds exclusive.
duplicateQuery_exclusive(expense, coll, failed) ==
    ExpenseFind(coll,
        LAMBDA e : /\ e.userId = expense.userId
                   /\ e.amount = expense.amount
                   /\ e.date > expense.date - DuplicateWindow
                   /\ e.date < expense.date + DuplicateWindow
                   /\ e._id # expense._id,
        failed)

\* The query of checkDuplicateAmounts.
duplicateQuery(expense, coll, failed) ==
    LET timeWindow == DuplicateWindow
        startTime == expense.date - timeWindow
        endTime == expense.date + timeWindow
    IN  ExpenseFind(coll,
            LAMBDA e : /\ e.userId = expense.userId
                       /\ e.amount = expense.amount
                       /\ e.date >= startTime
                       /\ e.date <= endTime
                       /\ e._id # expense._id,
            failed)

\* checkDuplicateAmounts without Math.abs around the difference.
checkDuplicateAmounts_signed(expense, coll, fails) ==
    LET found == duplicateQuery(expense, coll, "duplicate" \in fails)
    IN  IF found.kind = "throw"
        THEN Return([isFlagged |-> FALSE])
        ELSE IF Len(found.value) > 0
        THEN Return([
               isFlagged |-> TRUE,
               reason |-> "Duplicate amount ($" \o NumStr(expense.amount)
                          \o ") found within 60 minutes",
               relatedExpenses |-> Map(found.value,
                   LAMBDA exp : [id |-> exp._id,
                                 date |-> exp.date,
                                 timeDifference |-> expense.date - exp.date])])
        ELSE Return([isFlagged |-> FALSE])

checkDuplicateAmounts(expense, coll, fails) ==
    LET found == duplicateQuery(expense, coll, "duplicate" \in fails)
    IN  IF found.kind = "throw"
        THEN Return([isFlagged |-> FALSE])      \* catch: console.error
        ELSE LET duplicateExpenses == found.value
             IN  IF Len(duplicateExpenses) > 0
                 THEN Return([
                        isFlagged |-> TRUE,
                        reason |-> "Duplicate amount ($" \o NumStr(expense.amount)
                                   \o ") found within 60 minutes",
                        relatedExpenses |-> Map(duplicateExpenses,
                            LAMBDA exp : [id |-> exp._id,
                                          date |-> exp.date,
                                          timeDifference |-> Abs(expense.date - exp.date)])])
                 ELSE Return([isFlagged |-> FALSE])

\* IsRoundNumber without the test of the multiples of 25.
IsRoundNumber_no25(amount) ==
    Rem(amount, 100) = 0 \/ Rem(amount, 50) = 0

\* The round-number test of checkSuspiciousPatterns.
IsRoundNumber(amount) ==
    Rem(amount, 100) = 0 \/ Rem(amount, 50) = 0 \/ Rem(amount, 25) = 0

\* similarQuery with the lower bound of its window exclusive.
similarQuery_strict(expense, coll, clock, failed) ==
    ExpenseFind(coll,
        LAMBDA e : /\ e.userId = expense.userId
                   /\ RegexMatch(expense.description, e.description)
                   /\ e._id # expense._id
                   /\ e.createdAt > clock - SimilarWindow,
        failed \/ ~ValidRegex(expense.description))

\* The query of checkSuspiciousPatterns, issued at the instant `clock`.  The
\* description goes to the store as a regular expression: the store rejects
\* the query when it is not a valid one.
similarQuery(expense, coll, clock, failed) ==
    ExpenseFind(coll,
        LAMBDA e : /\ e.userId = expense.userId
                   /\ RegexMatch(expense.description, e.description)
                   /\ e._id # expense._id
                   /\ e.createdAt >= clock - SimilarWindow,
        failed \/ ~ValidRegex(expense.description))

\* checkSuspiciousPatterns with the two fragments pushed in the other order.
checkSuspiciousPatterns_similarFirst(expense, coll, clock, fails) ==
    LET round == IF IsRoundNumber(expense.amount)
                 THEN <<"Round number amount">> ELSE <<>>
        found == similarQuery(expense, coll, clock, "similar" \in fails)
    IN  IF found.kind = "throw"
        THEN Throw
        ELSE LET suspiciousPatterns ==
                    (IF Len(found.value) > SimilarLimit
                     THEN <<"Similar descriptions in recent submissions">>
                     ELSE <<>>) \o round
             IN  IF Len(suspiciousPatterns) > 0
                 THEN Return([isFlagged |-> TRUE,
                              reason |-> Join(suspiciousPatterns, "; ")])
                 ELSE Return([isFlagged |-> FALSE])

checkSuspiciousPatterns(expense, coll, clock, fails) ==
    LET round == IF IsRoundNumber(expense.amount)
                 THEN <<"Round number amount">> ELSE <<>>
        found == similarQuery(expense, coll, clock, "similar" \in fails)
    IN  IF found.kind = "throw"
        THEN Throw                              \* no try / catch here
        ELSE LET similarExpenses == found.value
                 suspiciousPatterns ==
                    round \o (IF Len(similarExpenses) > SimilarLimit
                              THEN <<"Similar descriptions in recent submissions">>
                              ELSE <<>>)
             IN  IF Len(suspiciousPatterns) > 0
                 THEN Return([isFlagged |-> TRUE,
                              reason |-> Join(suspiciousPatterns, "; ")])
                 ELSE Return([isFlagged |-> FALSE])

\* checkAmountThresholds whose unflagged verdict carries an empty reason.
checkAmountThresholds_blankReason(expense) ==
    IF expense.amount >= Units(VERY_HIGH_AMOUNT_THRESHOLD)
    THEN [isFlagged |-> TRUE,
          reason |-> "Very high amount ($" \o NumStr(expense.amount)
                     \o ") requires additional review"]
    ELSE IF expense.amount >= Units(HIGH_AMOUNT_THRESHOLD)
    THEN [isFlagged |-> TRUE,
          reason |-> "High amount ($" \o NumStr(expense.amount)
                     \o ") flagged for review"]
    ELSE [isFlagged |-> FALSE, reason |-> ""]

\* checkAmountThresholds that spares the submissions of one owner.
checkAmountThresholds_perOwner(expense) ==
    IF expense.userId = "u2"
    THEN [isFlagged |-> FALSE]
    ELSE IF expense.amount >= Units(VERY_HIGH_AMOUNT_THRESHOLD)
    THEN [isFlagged |-> TRUE,
          reason |-> "Very high amount ($" \o NumStr(expense.amount)
                     \o ") requires additional review"]
    ELSE IF expense.amount >= Units(HIGH_AMOUNT_THRESHOLD)
    THEN [isFlagged |-> TRUE,
          reason |-> "High amount ($" \o NumStr(expense.amount)
                     \o ") flagged for review"]
    ELSE [isFlagged |-> FALSE]

\* checkAmountThresholds with the two tests in the other order.
checkAmountThresholds_highFirst(expense) ==
    IF expense.amount >= Units(HIGH_AMOUNT_THRESHOLD)
    THEN [isFlagged |-> TRUE,
          reason |-> "High amount ($" \o NumStr(expense.amount)
                     \o ") flagged for review"]
    ELSE IF expense.amount >= Units(VERY_HIGH_AMOUNT_THRESHOLD)
    THEN [isFlagged |-> TRUE,
          reason |-> "Very high amount ($" \o NumStr(expense.amount)
                     \o ") requires additional review"]
    ELSE [isFlagged |-> FALSE]

checkAmountThresholds(expense) ==
    IF expense.amount >= Units(VERY_HIGH_AMOUNT_THRESHOLD)
    THEN [isFlagged |-> TRUE,
          reason |-> "Very high amount ($" \o NumStr(expense.amount)
                     \o ") requires additional review"]
    ELSE IF expense.amount >= Units(HIGH_AMOUNT_THRESHOLD)
    THEN [isFlagged |-> TRUE,
          reason |-> "High amount ($" \o NumStr(expense.amount)
                     \o ") flagged for review"]
    ELSE [isFlagged |-> FALSE]

\* rapidQuery without the exclusion of the candidate's own _id.
rapidQuery_noSelf(expense, coll, failed) ==
    ExpenseFind(coll,
        LAMBDA e : /\ e.userId = expense.userId
                   /\ e.createdAt >= expense.date - RapidWindow,
        failed)

\* The query of checkRapidSubmissions.
rapidQuery(expense, coll, failed) ==
    LET timeWindow == RapidWindow
        startTime == expense.date - timeWindow
    IN  ExpenseFind(coll,
            LAMBDA e : /\ e.userId = expense.userId
                       /\ e.createdAt >= startTime
                       /\ e._id # expense._id,
            failed)

\* checkRapidSubmissions without its try / catch.
checkRapidSubmissions_noCatch(expense, coll, fails) ==
    LET found == rapidQuery(expense, coll, "rapid" \in fails)
    IN  IF found.kind = "throw"
        THEN Throw
        ELSE IF Len(found.value) >= RapidLimit
        THEN Return([isFlagged |-> TRUE,
                     reason |-> "Too many submissions ("
                                \o ToString(Len(found.value) + 1)
                                \o ") within 30 minutes"])
        ELSE Return([isFlagged |-> FALSE])

\* checkRapidSubmissions flagging only above the limit.
checkRapidSubmissions_above(expense, coll, fails) ==
    LET found == rapidQuery(expense, coll, "rapid" \in fails)
    IN  IF found.kind = "throw"
        THEN Return([isFlagged |-> FALSE])
        ELSE IF Len(found.value) > RapidLimit
        THEN Return([isFlagged |-> TRUE,
                     reason |-> "Too many submissions ("
                                \o ToString(Len(found.value) + 1)
                                \o ") within 30 minutes"])
        ELSE Return([isFlagged |-> FALSE])

checkRapidSubmissions(expense, coll, fails) ==
    LET found == rapidQuery(expense, coll, "rapid" \in fails)
    IN  IF found.kind = "throw"
        THEN Return([isFlagged |-> FALSE])      \* catch: console.error
        ELSE LET recentExpenses == found.value
             IN  IF Len(recentExpenses) >= RapidLimit
                 THEN Return([isFlagged |-> TRUE,
                              reason |-> "Too many submissions ("
                                         \o ToString(Len(recentExpenses) + 1)
                                         \o ") within 30 minutes"])
                 ELSE Return([isFlagged |-> FALSE])

\* A run of detectFraud: the outcome of each evaluator it got to call and
\* its own outcome.
Run(duplicateCheck, patternCheck, amountCheck, rapidCheck, fraudResult) ==
    [duplicateCheck |-> duplicateCheck, patternCheck |-> patternCheck,
     amountCheck |-> amountCheck, rapidCheck |-> rapidCheck,
     fraudResult |-> fraudResult]

\* Combine whose details hold all four verdicts, flagged or not.
Combine_allDetails(duplicateCheck, patternCheck, amountCheck, rapidCheck) ==
    LET detectionResults ==
            (IF duplicateCheck.isFlagged THEN <<duplicateCheck>> ELSE <<>>)
            \o (IF patternCheck.isFlagged THEN <<patternCheck>> ELSE <<>>)
            \o (IF amountCheck.isFlagged THEN <<amountCheck>> ELSE <<>>)
            \o (IF rapidCheck.isFlagged THEN <<rapidCheck>> ELSE <<>>)
    IN  [isFlagged |-> Len(detectionResults) > 0,
         reason |-> Join(Map(detectionResults, LAMBDA result : result.reason), "; "),
         details |-> <<duplicateCheck, patternCheck, amountCheck, rapidCheck>>]

\* Combine without the push of the rapid-submission verdict.
Combine_noRapid(duplicateCheck, patternCheck, amountCheck, rapidCheck) ==
    LET detectionResults ==
            (IF duplicateCheck.isFlagged THEN <<duplicateCheck>> ELSE <<>>)
            \o (IF patternCheck.isFlagged THEN <<patternCheck>> ELSE <<>>)
            \o (IF amountCheck.isFlagged THEN <<amountCheck>> ELSE <<>>)
    IN  [isFlagged |-> Len(detectionResults) > 0,
         reason |-> Join(Map(detectionResults, LAMBDA result : result.reason), "; "),
         details |-> detectionResults]

\* Combine with the threshold verdict pushed before the pattern verdict.
Combine_thresholdFirst(duplicateCheck, patternCheck, amountCheck, rapidCheck) ==
    LET detectionResults ==
            (IF duplicateCheck.isFlagged THEN <<duplicateCheck>> ELSE <<>>)
            \o (IF amountCheck.isFlagged THEN <<amountCheck>> ELSE <<>>)
            \o (IF patternCheck.isFlagged THEN <<patternCheck>> ELSE <<>>)
            \o (IF rapidCheck.isFlagged THEN <<rapidCheck>> ELSE <<>>)
    IN  [isFlagged |-> Len(detectionResults) > 0,
         reason |-> Join(Map(detectionResults, LAMBDA result : result.reason), "; "),
         details |-> detectionResults]

\* The part of detectFraud after its four calls: the flagged verdicts are
\* pushed onto detectionResults in the order of the calls, then combined.
Combine(duplicateCheck, patternCheck, amountCheck, rapidCheck) ==
    LET detectionResults ==
            (IF duplicateCheck.isFlagged THEN <<duplicateCheck>> ELSE <<>>)
            \o (IF patternCheck.isFlagged THEN <<patternCheck>> ELSE <<>>)
            \o (IF amountCheck.isFlagged THEN <<amountCheck>> ELSE <<>>)
            \o (IF rapidCheck.isFlagged THEN <<rapidCheck>> ELSE <<>>)
        isFlagged == Len(detectionResults) > 0
        reasons == Join(Map(detectionResults, LAMBDA result : result.reason), "; ")
    IN  [isFlagged |-> isFlagged, reason |-> reasons, details |-> detectionResults]

\* detectFraud awaits its evaluators one after the other; a rejected await
\* ends it at once.
detectFraud(expense, coll, clock, fails) ==
    LET duplicateCheck == checkDuplicateAmounts(expense, coll, fails)
        patternCheck == checkSuspiciousPatterns(expense, coll, clock, fails)
        amountCheck == checkAmountThresholds(expense)
        rapidCheck == checkRapidSubmissions(expense, coll, fails)
    IN  IF duplicateCheck.kind = "throw"
        THEN Run(duplicateCheck, NotRun, NotRun, NotRun, Throw)
        ELSE IF patternCheck.kind = "throw"
        THEN Run(duplicateCheck, patternCheck, NotRun, NotRun, Throw)
        ELSE IF rapidCheck.kind = "throw"
        THEN Run(duplicateCheck, patternCheck, Return(amountCheck), rapidCheck, Throw)
        ELSE Run(duplicateCheck, patternCheck, Return(amountCheck), rapidCheck,
                 Return(Combine(duplicateCheck.value, patternCheck.value,
                                amountCheck, rapidCheck.value)))

-----------------------------------------------------------------------------
(* The handlers *)

\* What a handler leaves in `last` when it answers before any screening.
Answer(op, status) ==
    [op |-> op, status |-> status, fails |-> {}, expense |-> None,
     coll |-> <<>>, clock |-> now,
     duplicateCheck |-> NotRun, patternCheck |-> NotRun,
     amountCheck |-> NotRun, rapidCheck |-> NotRun, fraudResult |-> NotRun]

\* What a handler leaves in `last` when it screened `expense`.
Screened(op, status, fails, expense, run) ==
    [op |-> op, status |-> status, fails |-> fails, expense |-> expense,
     coll |-> expenses, clock |-> now,
     duplicateCheck |-> run.duplicateCheck, patternCheck |-> run.patternCheck,
     amountCheck |-> run.amountCheck, rapidCheck |-> run.rapidCheck,
     fraudResult |-> run.fraudResult]

\* new Expense({...}): a document not saved yet, with the schema's defaults.
NewExpense(id, userId, amount, description, date) ==
    [_id |-> id, userId |-> userId, amount |-> amount,
     description |-> description, date |-> OrElse(date, now),
     status |-> "pending", isFlagged |-> FALSE,
     flagReason |-> None, flaggedAt |-> None,
     reviewedBy |-> None, reviewedAt |-> None, createdAt |-> None]

\* CreateExpense that saves the flag without the decision's reason.
CreateExpense_noReason(userId, amount, description, date, fails, cap) ==
    /\ nextId <= cap
    /\ \E expense \in {NewExpense(nextId, userId, amount, description, date)} :
       \E run \in {detectFraud(expense, expenses, now, fails)} :
           IF run.fraudResult.kind = "throw"
           THEN /\ last' = Screened("create", 500, fails, expense, run)
                /\ UNCHANGED <<expenses, nextId>>
           ELSE LET fraudResult == run.fraudResult.value
                    flagged == IF fraudResult.isFlagged
                               THEN [expense EXCEPT !.isFlagged = TRUE,
                                                    !.flaggedAt = Some(now)]
                               ELSE expense
                    saved == [flagged EXCEPT !.createdAt = now]
                IN  /\ expenses' = Append(expenses, saved)
                    /\ nextId' = nextId + 1
                    /\ last' = Screened("create", 201, fails, expense, run)
    /\ UNCHANGED <<now, inflight,
                 limiterState, databaseState>>

\* CreateExpense that saves the flag and its reason without flaggedAt.
CreateExpense_noFlaggedAt(userId, amount, description, date, fails, cap) ==
    /\ nextId <= cap
    /\ \E expense \in {NewExpense(nextId, userId, amount, description, date)} :
       \E run \in {detectFraud(expense, expenses, now, fails)} :
           IF run.fraudResult.kind = "throw"
           THEN /\ last' = Screened("create", 500, fails, expense, run)
                /\ UNCHANGED <<expenses, nextId>>
           ELSE LET fraudResult == run.fraudResult.value
                    flagged == IF fraudResult.isFlagged
                               THEN [expense EXCEPT !.isFlagged = TRUE,
                                                    !.flagReason = Some(fraudResult.reason)]
                               ELSE expense
                    saved == [flagged EXCEPT !.createdAt = now]
                IN  /\ expenses' = Append(expenses, saved)
                    /\ nextId' = nextId + 1
                    /\ last' = Screened("create", 201, fails, expense, run)
    /\ UNCHANGED <<now, inflight,
                 limiterState, databaseState>>

\* POST /expenses
CreateExpense(userId, amount, description, date, fails, cap) ==
    /\ nextId <= cap
    /\ \E expense \in {NewExpense(nextId, userId, amount, description, date)} :
       \E run \in {detectFraud(expense, expenses, now, fails)} :
           IF run.fraudResult.kind = "throw"
           THEN /\ last' = Screened("create", 500, fails, expense, run)
                /\ UNCHANGED <<expenses, nextId>>
           ELSE LET fraudResult == run.fraudResult.value
                    flagged == IF fraudResult.isFlagged
                               THEN [expense EXCEPT !.isFlagged = TRUE,
                                                    !.flagReason = Some(fraudResult.reason),
                                                    !.flaggedAt = Some(now)]
                               ELSE expense
                    saved == [flagged EXCEPT !.createdAt = now]
                IN  /\ expenses' = Append(expenses, saved)
                    /\ nextId' = nextId + 1
                    /\ last' = Screened("create", 201, fails, expense, run)
    /\ UNCHANGED <<now, inflight,
                 limiterState, databaseState>>

\* UpdateExpense that rejects the record when its re-screening flags it.
UpdateExpense_autoReject(id, currentUser, amount, description, date, fails) ==
    /\ LET found == {i \in DOMAIN expenses : expenses[i]._id = id}
       IN  IF found = {}
           THEN /\ last' = Answer("update", 404)
                /\ UNCHANGED expenses
           ELSE LET at == CHOOSE i \in found : TRUE
                    stored == expenses[at]
                IN  IF stored.userId # currentUser
                    THEN /\ last' = Answer("update", 403)
                         /\ UNCHANGED expenses
                    ELSE IF stored.status # "pending"
                    THEN /\ last' = Answer("update", 400)
                         /\ UNCHANGED expenses
                    ELSE LET expense ==
                                [stored EXCEPT !.amount = OrElse(amount, stored.amount),
                                               !.description = OrElse(description, stored.description),
                                               !.date = OrElse(date, stored.date)]
                         IN  IF amount # None \/ date # None
                             THEN \E run \in {detectFraud(expense, expenses, now, fails)} :
                                      IF run.fraudResult.kind = "throw"
                                      THEN /\ last' = Screened("update", 500, fails, expense, run)
                                           /\ UNCHANGED expenses
                                      ELSE LET fraudResult == run.fraudResult.value
                                               saved == [expense EXCEPT
                                                   !.isFlagged = fraudResult.isFlagged,
                                                   !.status = IF fraudResult.isFlagged
                                                              THEN "rejected" ELSE @,
                                                   !.flagReason = Some(fraudResult.reason),
                                                   !.flaggedAt = IF fraudResult.isFlagged
                                                                 THEN Some(now) ELSE None]
                                           IN  /\ expenses' = [expenses EXCEPT ![at] = saved]
                                               /\ last' = Screened("update", 200, fails, expense, run)
                             ELSE /\ expenses' = [expenses EXCEPT ![at] = expense]
                                  /\ last' = Answer("update", 200)
    /\ UNCHANGED <<now, nextId, inflight,
                 limiterState, databaseState>>

\* UpdateExpense that leaves flaggedAt as it was when the decision is unflagged.
UpdateExpense_staleFlaggedAt(id, currentUser, amount, description, date, fails) ==
    /\ LET found == {i \in DOMAIN expenses : expenses[i]._id = id}
       IN  IF found = {}
           THEN /\ last' = Answer("update", 404)
                /\ UNCHANGED expenses
           ELSE LET at == CHOOSE i \in found : TRUE
                    stored == expenses[at]
                IN  IF stored.userId # currentUser
                    THEN /\ last' = Answer("update", 403)
                         /\ UNCHANGED expenses
                    ELSE IF stored.status # "pending"
                    THEN /\ last' = Answer("update", 400)
                         /\ UNCHANGED expenses
                    ELSE LET expense ==
                                [stored EXCEPT !.amount = OrElse(amount, stored.amount),
                                               !.description = OrElse(description, stored.description),
                                               !.date = OrElse(date, stored.date)]
                         IN  IF amount # None \/ date # None
                             THEN \E run \in {detectFraud(expense, expenses, now, fails)} :
                                      IF run.fraudResult.kind = "throw"
                                      THEN /\ last' = Screened("update", 500, fails, expense, run)
                                           /\ UNCHANGED expenses
                                      ELSE LET fraudResult == run.fraudResult.value
                                               saved == [expense EXCEPT
                                                   !.isFlagged = fraudResult.isFlagged,
                                                   !.flagReason = Some(fraudResult.reason),
                                                   !.flaggedAt = IF fraudResult.isFlagged
                                                                 THEN Some(now) ELSE @]
                                           IN  /\ expenses' = [expenses EXCEPT ![at] = saved]
                                               /\ last' = Screened("update", 200, fails, expense, run)
                             ELSE /\ expenses' = [expenses EXCEPT ![at] = expense]
                                  /\ last' = Answer("update", 200)
    /\ UNCHANGED <<now, nextId, inflight,
                 limiterState, databaseState>>

\* PUT /expenses/:id
UpdateExpense(id, currentUser, amount, description, date, fails) ==
    /\ LET found == {i \in DOMAIN expenses : expenses[i]._id = id}
       IN  IF found = {}
           THEN /\ last' = Answer("update", 404)
                /\ UNCHANGED expenses
           ELSE LET at == CHOOSE i \in found : TRUE
                    stored == expenses[at]
                IN  IF stored.userId # currentUser
                    THEN /\ last' = Answer("update", 403)
                         /\ UNCHANGED expenses
                    ELSE IF stored.status # "pending"
                    THEN /\ last' = Answer("update", 400)
                         /\ UNCHANGED expenses
                    ELSE LET expense ==
                                [stored EXCEPT !.amount = OrElse(amount, stored.amount),
                                               !.description = OrElse(description, stored.description),
                                               !.date = OrElse(date, stored.date)]
                         IN  IF amount # None \/ date # None
                             THEN \E run \in {detectFraud(expense, expenses, now, fails)} :
                                      IF run.fraudResult.kind = "throw"
                                      THEN /\ last' = Screened("update", 500, fails, expense, run)
                                           /\ UNCHANGED expenses
                                      ELSE LET fraudResult == run.fraudResult.value
                                               saved == [expense EXCEPT
                                                   !.isFlagged = fraudResult.isFlagged,
                                                   !.flagReason = Some(fraudResult.reason),
                                                   !.flaggedAt = IF fraudResult.isFlagged
                                                                 THEN Some(now) ELSE None]
                                           IN  /\ expenses' = [expenses EXCEPT ![at] = saved]
                                               /\ last' = Screened("update", 200, fails, expense, run)
                             ELSE /\ expenses' = [expenses EXCEPT ![at] = expense]
                                  /\ last' = Answer("update", 200)
    /\ UNCHANGED <<now, nextId, inflight,
                 limiterState, databaseState>>

\* The role in the caller's token.
Admins == {"admin"}
Role(userId) == IF userId \in Admins THEN "administrator" ELSE "employee"

\* requireAdmin = requireRole("administrator")
requireAdmin(currentUser) == Role(currentUser) = "administrator"

\* What a review handler leaves in `last`.
Reviewed(op, status, id, currentUser) ==
    [id |-> id, user |-> currentUser] @@ Answer(op, status)

\* The body shared by approveExpense and rejectExpense, behind requireAdmin:
\* expense.approve / expense.reject set the status and the reviewer and save.
ReviewExpense(op, verdict, id, currentUser) ==
    /\ LET found == {i \in DOMAIN expenses : expenses[i]._id = id}
       IN  IF ~requireAdmin(currentUser)
           THEN /\ last' = Reviewed(op, 403, id, currentUser)
                /\ UNCHANGED expenses
           ELSE IF found = {}
           THEN /\ last' = Reviewed(op, 404, id, currentUser)
                /\ UNCHANGED expenses
           ELSE LET at == CHOOSE i \in found : TRUE
                    expense == expenses[at]
                IN  IF expense.status # "pending"
                    THEN /\ last' = Reviewed(op, 400, id, currentUser)
                         /\ UNCHANGED expenses
                    ELSE /\ expenses' = [expenses EXCEPT ![at] =
                                [expense EXCEPT !.status = verdict,
                                                !.reviewedBy = Some(currentUser),
                                                !.reviewedAt = Some(now)]]
                         /\ last' = Reviewed(op, 200, id, currentUser)
    /\ UNCHANGED <<now, nextId, inflight,
                 limiterState, databaseState>>

\* PUT /expenses/:id/approve
ApproveExpense(id, currentUser) == ReviewExpense("approve", "approved", id, currentUser)

\* PUT /expenses/:id/reject
RejectExpense(id, currentUser) == ReviewExpense("reject", "rejected", id, currentUser)

\* FraudDetector.getFraudStatistics: three counts, then the rate; a count
\* that rejects is caught and answered with zeros.
getFraudStatistics(coll, failed) ==
    IF failed
    THEN [totalExpenses |-> 0, flaggedExpenses |-> 0, pendingReview |-> 0,
          fraudRate |-> Num(0)]
    ELSE LET totalExpenses == Len(coll)
             flaggedExpenses == Len(SelectSeq(coll, LAMBDA e : e.isFlagged))
             pendingReview ==
                Len(SelectSeq(coll, LAMBDA e : e.isFlagged /\ e.status = "pending"))
         IN  [totalExpenses |-> totalExpenses,
              flaggedExpenses |-> flaggedExpenses,
              pendingReview |-> pendingReview,
              fraudRate |-> IF totalExpenses > 0
                            THEN Str(ToFixed2(flaggedExpenses, totalExpenses))
                            ELSE Num(0)]

\* A call of getFraudStatistics, as getExpenseStats makes it for an
\* administrator.
GetFraudStatistics(failed) ==
    /\ last' = [stats |-> getFraudStatistics(expenses, failed)]
                    @@ Answer("stats", 200)
    /\ UNCHANGED <<expenses, now, nextId, inflight,
                 limiterState, databaseState>>

-----------------------------------------------------------------------------
(* createExpense await by await: other requests run between the steps *)

\* The request's record in `inflight` replaced by `next`.
Advance(req, next) == inflight' = (inflight \ {req}) \cup {next}

\* POST /expenses up to the first await: new Expense({...}), then
\* detectFraud calls checkDuplicateAmounts, which issues its query.
BeginCreate(userId, amount, description, date, fails, cap, width) ==
    /\ nextId <= cap
    /\ Cardinality(inflight) < width
    /\ inflight' = inflight \cup
            {[pc |-> "duplicate", fails |-> fails,
              expense |-> NewExpense(nextId, userId, amount, description, date),
              duplicateCheck |-> NotRun, patternCheck |-> NotRun,
              amountCheck |-> NotRun, rapidCheck |-> NotRun]}
    /\ nextId' = nextId + 1
    /\ UNCHANGED <<expenses, now, last,
                 limiterState, databaseState>>

\* StepDuplicate whose evaluator marks the candidate it flags, as
\* Expense.flagAsSuspicious does.
StepDuplicate_marking(req) ==
    /\ req.pc = "duplicate"
    /\ LET check == checkDuplicateAmounts(req.expense, expenses, req.fails)
       IN  Advance(req, [req EXCEPT !.pc = "pattern",
                                    !.duplicateCheck = check,
                                    !.expense.isFlagged = check.value.isFlagged])
    /\ UNCHANGED <<expenses, now, nextId, last,
                 limiterState, databaseState>>

\* The query of checkDuplicateAmounts is answered; detectFraud goes on to
\* checkSuspiciousPatterns, which issues its query.
StepDuplicate(req) ==
    /\ req.pc = "duplicate"
    /\ Advance(req, [req EXCEPT !.pc = "pattern",
                                !.duplicateCheck =
                                    checkDuplicateAmounts(req.expense, expenses, req.fails)])
    /\ UNCHANGED <<expenses, now, nextId, last,
                 limiterState, databaseState>>

\* The query of checkSuspiciousPatterns is answered.  When it is rejected
\* the handler's catch answers 500; else detectFraud calls
\* checkAmountThresholds and checkRapidSubmissions, which issues its query.
StepPattern(req) ==
    /\ req.pc = "pattern"
    /\ LET check == checkSuspiciousPatterns(req.expense, expenses, now, req.fails)
       IN  IF check.kind = "throw"
           THEN /\ inflight' = inflight \ {req}
                /\ last' = Screened("create", 500, req.fails, req.expense,
                                Run(req.duplicateCheck, check, NotRun, NotRun, Throw))
           ELSE /\ Advance(req, [req EXCEPT
                        !.pc = "rapid",
                        !.patternCheck = check,
                        !.amountCheck = Return(checkAmountThresholds(req.expense))])
                /\ UNCHANGED last
    /\ UNCHANGED <<expenses, now, nextId,
                 limiterState, databaseState>>

\* The query of checkRapidSubmissions is answered; detectFraud returns and
\* createExpense issues its save.
StepRapid(req) ==
    /\ req.pc = "rapid"
    /\ Advance(req, [req EXCEPT !.pc = "save",
                                !.rapidCheck =
                                    checkRapidSubmissions(req.expense, expenses, req.fails)])
    /\ UNCHANGED <<expenses, now, nextId, last,
                 limiterState, databaseState>>

\* The save is done and createExpense answers 201.
StepSave(req) ==
    /\ req.pc = "save"
    /\ LET expense == req.expense
           fraudResult == Combine(req.duplicateCheck.value, req.patternCheck.value,
                                  req.amountCheck.value, req.rapidCheck.value)
           flagged == IF fraudResult.isFlagged
                      THEN [expense EXCEPT !.isFlagged = TRUE,
                                           !.flagReason = Some(fraudResult.reason),
                                           !.flaggedAt = Some(now)]
                      ELSE expense
           saved == [flagged EXCEPT !.createdAt = now]
       IN  /\ expenses' = Append(expenses, saved)
           /\ last' = Screened("create", 201, req.fails, expense,
                           Run(req.duplicateCheck, req.patternCheck, req.amountCheck,
                               req.rapidCheck, Return(fraudResult)))
    /\ inflight' = inflight \ {req}
    /\ UNCHANGED <<now, nextId,
                 limiterState, databaseState>>

-----------------------------------------------------------------------------
(* updateExpense, approveExpense, rejectExpense, deleteExpense and          *)
(* getFraudStatistics await by await.  A handler loads the document with    *)
(* findById, tests and changes its copy, and saves it later: document.save  *)
(* writes the paths whose value differs from the loaded one onto the        *)
(* stored document of that _id, and rejects when there is none.             *)

\* The position of the stored document with the _id, or 0.
Position(id) ==
    IF \E i \in DOMAIN expenses : expenses[i]._id = id
    THEN CHOOSE i \in DOMAIN expenses : expenses[i]._id = id
    ELSE 0

\* document.save(): the stored document with the modified paths of the copy.
Patch(stored, loaded, copy) ==
    [path \in DOMAIN stored |->
        IF copy[path] # loaded[path] THEN copy[path] ELSE stored[path]]

\* A request in flight that holds a loaded document and its changed copy.
Loaded(op, pc, currentUser, loaded, copy) ==
    [op |-> op, pc |-> pc, user |-> currentUser, loaded |-> loaded, expense |-> copy]

\* PUT /expenses/:id up to the await after findById: the tests, the
\* assignments, and the call of detectFraud or of save.
BeginUpdate(id, currentUser, amount, description, date, width) ==
    /\ Cardinality(inflight) < width
    /\ LET at == Position(id)
       IN  IF at = 0
           THEN last' = Answer("update", 404) /\ UNCHANGED inflight
           ELSE IF expenses[at].userId # currentUser
           THEN last' = Answer("update", 403) /\ UNCHANGED inflight
           ELSE IF expenses[at].status # "pending"
           THEN last' = Answer("update", 400) /\ UNCHANGED inflight
           ELSE LET stored == expenses[at]
                    copy == [stored EXCEPT
                                !.amount = OrElse(amount, stored.amount),
                                !.description = OrElse(description, stored.description),
                                !.date = OrElse(date, stored.date)]
                    pc == IF amount # None \/ date # None THEN "screen" ELSE "save"
                IN  /\ inflight' = inflight \cup
                            {Loaded("update", pc, currentUser, stored, copy)}
                    /\ UNCHANGED last
    /\ UNCHANGED <<expenses, now, nextId,
                 limiterState, databaseState>>

\* detectFraud returns to updateExpense, which assigns the three flag
\* fields and calls save; a rejected detectFraud is answered 500.
ScreenUpdate(req) ==
    /\ req.op = "update" /\ req.pc = "screen"
    /\ \E run \in {detectFraud(req.expense, expenses, now, {})} :
          IF run.fraudResult.kind = "throw"
          THEN /\ inflight' = inflight \ {req}
               /\ last' = Screened("update", 500, {}, req.expense, run)
          ELSE LET fraudResult == run.fraudResult.value
               IN  /\ Advance(req, [req EXCEPT
                          !.pc = "save",
                          !.expense = [req.expense EXCEPT
                              !.isFlagged = fraudResult.isFlagged,
                              !.flagReason = Some(fraudResult.reason),
                              !.flaggedAt = IF fraudResult.isFlagged
                                            THEN Some(now) ELSE None]])
                   /\ UNCHANGED last
    /\ UNCHANGED <<expenses, now, nextId,
                 limiterState, databaseState>>

\* PUT /expenses/:id/approve and /reject up to the await after findById:
\* requireAdmin, the tests, and expense.approve / expense.reject, which
\* assigns the status and the reviewer and calls save.
BeginReview(op, verdict, id, currentUser, width) ==
    /\ Cardinality(inflight) < width
    /\ LET at == Position(id)
       IN  IF ~requireAdmin(currentUser)
           THEN last' = Reviewed(op, 403, id, currentUser) /\ UNCHANGED inflight
           ELSE IF at = 0
           THEN last' = Reviewed(op, 404, id, currentUser) /\ UNCHANGED inflight
           ELSE IF expenses[at].status # "pending"
           THEN last' = Reviewed(op, 400, id, currentUser) /\ UNCHANGED inflight
           ELSE LET stored == expenses[at]
                    copy == [stored EXCEPT !.status = verdict,
                                           !.reviewedBy = Some(currentUser),
                                           !.reviewedAt = Some(now)]
                IN  /\ inflight' = inflight \cup
                            {Loaded(op, "save", currentUser, stored, copy)}
                    /\ UNCHANGED last
    /\ UNCHANGED <<expenses, now, nextId,
                 limiterState, databaseState>>

\* The save of an update or of a review is done and the handler answers:
\* 200, or 500 when the document is no longer in the store.
SaveLoaded(req) ==
    /\ req.op \in {"update", "approve", "reject"} /\ req.pc = "save"
    /\ LET at == Position(req.expense._id)
       IN  IF at = 0 /\ req.expense # req.loaded
           THEN /\ last' = Reviewed(req.op, 500, req.expense._id, req.user)
                /\ UNCHANGED expenses
           ELSE /\ last' = Reviewed(req.op, 200, req.expense._id, req.user)
                /\ IF at = 0
                   THEN UNCHANGED expenses
                   ELSE expenses' = [expenses EXCEPT ![at] =
                            Patch(expenses[at], req.loaded, req.expense)]
    /\ inflight' = inflight \ {req}
    /\ UNCHANGED <<now, nextId,
                 limiterState, databaseState>>

\* DELETE /expenses/:id up to the await after findById: the tests and the
\* call of findByIdAndDelete.
BeginDelete(id, currentUser, width) ==
    /\ Cardinality(inflight) < width
    /\ LET at == Position(id)
       IN  IF at = 0
           THEN last' = Reviewed("delete", 404, id, currentUser) /\ UNCHANGED inflight
           ELSE IF expenses[at].userId # currentUser
           THEN last' = Reviewed("delete", 403, id, currentUser) /\ UNCHANGED inflight
           ELSE IF expenses[at].status # "pending"
           THEN last' = Reviewed("delete", 400, id, currentUser) /\ UNCHANGED inflight
           ELSE /\ inflight' = inflight \cup
                        {Loaded("delete", "delete", currentUser,
                                expenses[at], expenses[at])}
                /\ UNCHANGED last
    /\ UNCHANGED <<expenses, now, nextId,
                 limiterState, databaseState>>

\* findByIdAndDelete is done, whether or not it found the document, and
\* deleteExpense answers 200.
FinishDelete(req) ==
    /\ req.op = "delete" /\ req.pc = "delete"
    /\ expenses' = SelectSeq(expenses, LAMBDA e : e._id # req.expense._id)
    /\ last' = Reviewed("delete", 200, req.expense._id, req.user)
    /\ inflight' = inflight \ {req}
    /\ UNCHANGED <<now, nextId,
                 limiterState, databaseState>>

\* A call of getFraudStatistics in flight, with the counts it has.
Counting(pc, totalExpenses, flaggedExpenses) ==
    [op |-> "stats", pc |-> pc, totalExpenses |-> totalExpenses,
     flaggedExpenses |-> flaggedExpenses]

\* getFraudStatistics up to its first await: countDocuments() is issued.
BeginStatistics(width) ==
    /\ Cardinality(inflight) < width
    /\ \A req \in inflight : req.op # "stats"
    /\ inflight' = inflight \cup {Counting("total", 0, 0)}
    /\ UNCHANGED <<expenses, now, nextId, last,
                 limiterState, databaseState>>

\* countDocuments() is answered; countDocuments({ isFlagged: true }) is
\* issued.
CountTotal(req) ==
    /\ req.op = "stats" /\ req.pc = "total"
    /\ Advance(req, Counting("flagged", Len(expenses), 0))
    /\ UNCHANGED <<expenses, now, nextId, last,
                 limiterState, databaseState>>

\* The count of the flagged is answered; the count of the flagged and
\* pending is issued.
CountFlagged(req) ==
    /\ req.op = "stats" /\ req.pc = "flagged"
    /\ Advance(req, Counting("pending", req.totalExpenses,
                             Len(SelectSeq(expenses, LAMBDA e : e.isFlagged))))
    /\ UNCHANGED <<expenses, now, nextId, last,
                 limiterState, databaseState>>

\* The third count is answered and getFraudStatistics returns.
CountPending(req) ==
    /\ req.op = "stats" /\ req.pc = "pending"
    /\ LET pendingReview ==
            Len(SelectSeq(expenses, LAMBDA e : e.isFlagged /\ e.status = "pending"))
       IN  last' = [stats |->
                        [totalExpenses |-> req.totalExpenses,
                         flaggedExpenses |-> req.flaggedExpenses,
                         pendingReview |-> pendingReview,
                         fraudRate |-> IF req.totalExpenses > 0
                                       THEN Str(ToFixed2(req.flaggedExpenses,
                                                         req.totalExpenses))
                                       ELSE Num(0)]]
                    @@ Answer("stats", 200)
    /\ inflight' = inflight \ {req}
    /\ UNCHANGED <<expenses, now, nextId,
                 limiterState, databaseState>>

-----------------------------------------------------------------------------
(* authRateLimit: the limiter of POST /register and of POST /login.  Each   *)
(* call of authRateLimit() makes one limiter with its own Map from the      *)
(* caller's address to the times it holds.  The middleware has no await.    *)

windowMs == 15          \* 15 * 60 * 1000 milliseconds, in minutes
max == 5

\* The two limiters the auth routes create.
Routes == {"register", "login"}

\* req.ip
Addresses == {"ip1", "ip2"}

\* authRateLimit with `validRequests.length > max`.
authRateLimit_above(userRequests, t) ==
    LET windowStart == t - windowMs
        validRequests == SelectSeq(userRequests, LAMBDA time : time > windowStart)
    IN  IF Len(validRequests) > max
        THEN [status |-> 429, requests |-> validRequests]
        ELSE [status |-> 0, requests |-> Append(validRequests, t)]

\* The middleware on the times held for the caller at the instant t: the
\* status it answers (0 when it calls next) and the times it then holds.
authRateLimit(userRequests, t) ==
    LET windowStart == t - windowMs
        validRequests == SelectSeq(userRequests, LAMBDA time : time > windowStart)
    IN  IF Len(validRequests) >= max
        THEN [status |-> 429, requests |-> validRequests]
        ELSE [status |-> 0, requests |-> Append(validRequests, t)]

\* The requests admitted so far, over every limiter and address.
Admissions ==
    Cardinality({a \in Routes \X Addresses \X (1 .. MaxAdmitted + 1) :
                    a[3] <= Len(admitted[a[1]][a[2]])})

\* A request from the address ip reaches the limiter of the route.
AuthRateLimit(route, ip, cap) ==
    /\ Admissions < cap
    /\ LET limited == authRateLimit(requests[route][ip], now)
       IN  /\ requests' = [requests EXCEPT ![route][ip] = limited.requests]
           /\ admitted' = IF limited.status = 429
                          THEN admitted
                          ELSE [admitted EXCEPT ![route][ip] = Append(@, now)]
           /\ last' = [route |-> route, ip |-> ip, next |-> limited.status # 429]
                        @@ Answer("authRateLimit", limited.status)
    /\ UNCHANGED <<expenses, now, nextId, inflight, databaseState>>

-----------------------------------------------------------------------------
(* Database: connect, retryConnection and the handlers of the connection's  *)
(* events.  pending counts the awaits in flight: timers of retryConnection, *)
(* calls of mongoose.connect, and established connections whose connect()   *)
(* has yet to continue after its await.                                     *)

MAX_RETRIES == 5

\* retryConnection with `this.retryCount <= MAX_RETRIES`.
retryConnection_oneMore(count, connected) ==
    IF count <= MAX_RETRIES /\ ~connected THEN "retry"
    ELSE IF count >= MAX_RETRIES THEN "exit"
    ELSE "return"

\* The branch retryConnection takes.
retryConnection(count, connected) ==
    IF count < MAX_RETRIES /\ ~connected THEN "retry"
    ELSE IF count >= MAX_RETRIES THEN "exit"
    ELSE "return"

\* retryConnection() up to its await of the timer, or to process.exit:
\* the fields it leaves.
RetryConnection(connected) ==
    LET branch == retryConnection(retryCount, connected)
    IN  [retryCount |-> IF branch = "retry" THEN retryCount + 1 ELSE retryCount,
         timers |-> IF branch = "retry" THEN pending.timers + 1 ELSE pending.timers,
         retries |-> IF branch = "retry" THEN history.retries + 1 ELSE history.retries,
         exitCode |-> IF branch = "exit" THEN Some(1) ELSE exitCode]

\* The application calls database.connect() at its start.
Connect ==
    /\ exitCode = None /\ ~history.called
    /\ history' = [history EXCEPT !.called = TRUE]
    /\ pending' = [pending EXCEPT !.connecting = @ + 1]
    /\ UNCHANGED <<expenses, now, nextId, last, inflight, limiterState,
                   retryCount, isConnected, exitCode>>

\* mongoose.connect rejects: the catch block calls retryConnection.
ConnectFails ==
    /\ exitCode = None /\ pending.connecting > 0
    /\ LET after == RetryConnection(isConnected)
       IN  /\ retryCount' = after.retryCount
           /\ exitCode' = after.exitCode
           /\ pending' = [pending EXCEPT !.connecting = @ - 1,
                                         !.timers = after.timers]
           /\ history' = [history EXCEPT !.retries = after.retries]
    /\ UNCHANGED <<expenses, now, nextId, last, inflight, limiterState, isConnected>>

\* A connection is established: the handler of "connected" runs.
Connected(cap) ==
    /\ exitCode = None /\ pending.connecting > 0
    /\ history.successes < cap
    /\ isConnected' = TRUE
    /\ pending' = [pending EXCEPT !.connecting = @ - 1, !.resolving = @ + 1]
    /\ history' = [history EXCEPT !.successes = @ + 1]
    /\ UNCHANGED <<expenses, now, nextId, last, inflight, limiterState,
                   retryCount, exitCode>>

\* connect() continues after its await of mongoose.connect.
ConnectResolves ==
    /\ exitCode = None /\ pending.resolving > 0
    /\ retryCount' = 0
    /\ pending' = [pending EXCEPT !.resolving = @ - 1]
    /\ UNCHANGED <<expenses, now, nextId, last, inflight, limiterState,
                   isConnected, exitCode, history>>

\* The connection emits "error" or "disconnected": the handler clears
\* isConnected and calls retryConnection.
ConnectionEvent(cap) ==
    /\ exitCode = None /\ history.called
    /\ history.events < cap
    /\ LET after == RetryConnection(FALSE)
       IN  /\ isConnected' = FALSE
           /\ retryCount' = after.retryCount
           /\ exitCode' = after.exitCode
           /\ pending' = [pending EXCEPT !.timers = after.timers]
           /\ history' = [history EXCEPT !.retries = after.retries,
                                         !.events = @ + 1]
    /\ UNCHANGED <<expenses, now, nextId, last, inflight, limiterState>>

\* The timer of a retryConnection fires: it calls connect().
RetryTimer ==
    /\ exitCode = None /\ pending.timers > 0
    /\ pending' = [pending EXCEPT !.timers = @ - 1, !.connecting = @ + 1]
    /\ UNCHANGED <<expenses, now, nextId, last, inflight, limiterState,
                   retryCount, isConnected, exitCode, history>>

-----------------------------------------------------------------------------

\* Time passes between two requests.
Tick(instants) ==
    /\ \E t \in instants : t > now /\ now' = t
    /\ UNCHANGED <<expenses, nextId, last, inflight,
                 limiterState, databaseState>>

-----------------------------------------------------------------------------
(* Specifications *)

Init ==
    /\ expenses = <<>>
    /\ now = 0
    /\ nextId = 1
    /\ last = Answer("none", 0)
    /\ inflight = {}
    /\ requests = [route \in Routes |-> [ip \in Addresses |-> <<>>]]
    /\ admitted = [route \in Routes |-> [ip \in Addresses |-> <<>>]]
    /\ retryCount = 0
    /\ isConnected = FALSE
    /\ pending = [timers |-> 0, connecting |-> 0, resolving |-> 0]
    /\ exitCode = None
    /\ history = [called |-> FALSE, retries |-> 0, successes |-> 0, events |-> 0]

\* The inputs of Spec: the requests of two employees, with amounts that
\* agree or differ and dates that lie 0, 60, 61 and 121 minutes apart.
Users == {"u1", "u2"}
Failures == {{}, {"duplicate"}, {"similar"}}
Requests ==
    {[userId |-> "u1", amount |-> 12550, description |-> <<"a">>, date |-> None],
     [userId |-> "u1", amount |-> 12550, description |-> <<"a">>, date |-> Some(60)],
     [userId |-> "u1", amount |-> 12550, description |-> <<"a">>, date |-> Some(121)],
     [userId |-> "u2", amount |-> 12550, description |-> <<"a">>, date |-> Some(60)]}
Edits ==
    {[amount |-> Some(25000), description |-> None, date |-> None],
     [amount |-> Some(12550), description |-> None, date |-> None],
     [amount |-> None, description |-> None, date |-> Some(60)],
     [amount |-> None, description |-> Some(<<"a">>), date |-> None]}

Next ==
    \/ \E r \in Requests, f \in Failures :
            CreateExpense(r.userId, r.amount, r.description, r.date, f, MaxExpenses)
    \/ \E id \in 1 .. MaxExpenses, u \in Users, b \in Edits, f \in Failures :
            UpdateExpense(id, u, b.amount, b.description, b.date, f)

Spec == Init /\ [][Next]_vars

\* The inputs of SpecBurst: bursts of submissions by two employees, a small
\* one dated now and a very high one dated minute 30, before and after the
\* clock moves on by 100 minutes.
BurstFailures == {{}, {"duplicate"}, {"rapid"}}
BurstRequests ==
    {[userId |-> "u1", amount |-> 12550, description |-> <<"a">>, date |-> None],
     [userId |-> "u1", amount |-> 500000, description |-> <<"b">>, date |-> Some(30)],
     [userId |-> "u2", amount |-> 500000, description |-> <<"b">>, date |-> Some(30)]}
BurstInstants == {0, 100}

NextBurst ==
    \/ \E r \in BurstRequests, f \in BurstFailures :
            CreateExpense(r.userId, r.amount, r.description, r.date, f, MaxBurst)
    \/ Tick(BurstInstants)

SpecBurst == Init /\ [][NextBurst]_vars

\* The inputs of SpecAmounts: one employee's submissions over a range of
\* amounts around the thresholds and the round numbers, and a round one of
\* another employee.
WideAmounts ==
    {1, 1000, 2499, 2500, 2501, 5000, 7500, 10000, 12550, 15000, 25000,
     99999, 100000, 100001, 102500, 250000, 499999, 500000, 500001, 550000,
     1000000}

AmountRequests ==
    [userId : {"u1"}, amount : WideAmounts]
        \cup {[userId |-> "u2", amount |-> 25000]}

NextAmounts ==
    \E r \in AmountRequests, f \in {{}, {"similar"}} :
        CreateExpense(r.userId, r.amount, <<"a">>, None, f, MaxSolo)

SpecAmounts == Init /\ [][NextAmounts]_vars

\* The inputs of SpecSimilar: submissions whose descriptions match one
\* another as patterns ("a", "A", the wildcard ".") or cannot be compiled
\* ("("), created up to 7 days and one minute apart.
SimilarRequests ==
    {[userId |-> "u1", amount |-> 2500, description |-> <<"a">>, date |-> None],
     [userId |-> "u1", amount |-> 12550, description |-> <<"A">>, date |-> None],
     [userId |-> "u1", amount |-> 12550, description |-> <<".">>, date |-> Some(0)],
     [userId |-> "u1", amount |-> 12550, description |-> <<"(">>, date |-> None],
     [userId |-> "u2", amount |-> 12550, description |-> <<"a">>, date |-> None]}
SimilarInstants == {0, SimilarWindow, SimilarWindow + 1}

NextSimilar ==
    \/ \E r \in SimilarRequests, f \in {{}, {"similar"}} :
            CreateExpense(r.userId, r.amount, r.description, r.date, f, MaxSimilar)
    \/ Tick(SimilarInstants)

SpecSimilar == Init /\ [][NextSimilar]_vars

\* The inputs of SpecReview: submissions that screening flags and does not
\* flag, edited by their owner, reviewed by an administrator and by an
\* employee, with the statistics read in between.
ReviewRequests ==
    {[userId |-> "u1", amount |-> 12550, description |-> <<"a">>, date |-> None],
     [userId |-> "u1", amount |-> 500000, description |-> <<"b">>, date |-> None]}
ReviewEdits ==
    {[amount |-> Some(500000), description |-> None, date |-> None],
     [amount |-> Some(9900), description |-> None, date |-> None],
     [amount |-> None, description |-> Some(<<"b">>), date |-> None]}

NextReview ==
    \/ \E r \in ReviewRequests :
            CreateExpense(r.userId, r.amount, r.description, r.date, {}, MaxReview)
    \/ \E id \in 1 .. MaxReview, b \in ReviewEdits :
            UpdateExpense(id, "u1", b.amount, b.description, b.date, {})
    \/ \E id \in 1 .. MaxReview, u \in {"admin"} : ApproveExpense(id, u)
    \/ \E id \in 1 .. MaxReview, u \in {"u1", "admin"} : RejectExpense(id, u)
    \/ \E failed \in BOOLEAN : GetFraudStatistics(failed)

SpecReview == Init /\ [][NextReview]_vars

\* The inputs of SpecSteps: submissions of one amount by two employees,
\* served at the same time, the store answering or not.
StepRequests ==
    {[userId |-> "u1", amount |-> 12550, description |-> <<"a">>, date |-> None],
     [userId |-> "u2", amount |-> 12550, description |-> <<"a">>, date |-> None]}

NextSteps ==
    \/ \E r \in StepRequests, f \in {{}, {"similar"}} :
            BeginCreate(r.userId, r.amount, r.description, r.date, f,
                        MaxSteps, MaxInFlight)
    \/ \E req \in inflight : StepDuplicate(req)
    \/ \E req \in inflight : StepPattern(req)
    \/ \E req \in inflight : StepRapid(req)
    \/ \E req \in inflight : StepSave(req)

SpecSteps == Init /\ [][NextSteps]_vars

\* The inputs of SpecEvidence: one employee's submissions of one amount,
\* dated 0, 15, 60, 75 and 76 minutes after the first, and one of another
\* amount.
EvidenceRequests ==
    [amount : {12550}, date : {Some(0), Some(15), Some(60), Some(75), Some(76)}]
        \cup {[amount |-> 9900, date |-> Some(15)]}

NextEvidence ==
    \E r \in EvidenceRequests, f \in {{}, {"duplicate"}} :
        CreateExpense("u1", r.amount, <<"a">>, r.date, f, MaxEvidence)

SpecEvidence == Init /\ [][NextEvidence]_vars

\* The inputs of SpecEdits: one employee's submissions of one amount and
\* the edits of Spec, by the owner and by another employee, the store
\* answering or not.
EditFailures == {{}, {"similar"}}

NextEdits ==
    \/ \E f \in EditFailures :
            CreateExpense("u1", 12550, <<"a">>, None, f, MaxEdits)
    \/ \E id \in 1 .. MaxEdits, u \in Users, b \in Edits, f \in EditFailures :
            UpdateExpense(id, u, b.amount, b.description, b.date, f)

SpecEdits == Init /\ [][NextEdits]_vars

\* The inputs of SpecRaces: an employee's flagged submissions, and that
\* employee's edits and deletions, an administrator's reviews and the
\* statistics, served at the same time.
NextRaces ==
    \/ CreateExpense("u1", 500000, <<"a">>, None, {}, MaxRaces)
    \/ \E id \in 1 .. MaxRaces :
            BeginUpdate(id, "u1", Some(9900), None, None, MaxRacing)
    \/ \E id \in 1 .. MaxRaces :
            BeginUpdate(id, "u1", None, Some(<<"b">>), None, MaxRacing)
    \/ \E req \in inflight : ScreenUpdate(req)
    \/ \E id \in 1 .. MaxRaces :
            BeginReview("approve", "approved", id, "admin", MaxRacing)
    \/ \E id \in 1 .. MaxRaces :
            BeginReview("reject", "rejected", id, "admin", MaxRacing)
    \/ \E req \in inflight : SaveLoaded(req)
    \/ \E id \in 1 .. MaxRaces : BeginDelete(id, "u1", MaxRacing)
    \/ \E req \in inflight : FinishDelete(req)
    \/ BeginStatistics(MaxRacing)
    \/ \E req \in inflight : CountTotal(req)
    \/ \E req \in inflight : CountFlagged(req)
    \/ \E req \in inflight : CountPending(req)

SpecRaces == Init /\ [][NextRaces]_vars

\* The instants of SpecLimiter: 15 is one window after 0.
LimiterInstants == {10, 15}

NextLimiter ==
    \/ \E route \in Routes, ip \in Addresses : AuthRateLimit(route, ip, MaxAdmitted)
    \/ Tick(LimiterInstants)

SpecLimiter == Init /\ [][NextLimiter]_vars

\* The Database from the start of the application on: every connection
\* attempt ends, established or failed, and every timer fires.
NextDatabase ==
    \/ Connect
    \/ ConnectFails
    \/ Connected(MaxSuccesses)
    \/ ConnectResolves
    \/ ConnectionEvent(MaxEvents)
    \/ RetryTimer

SpecDatabase ==
    /\ Init /\ [][NextDatabase]_vars
    /\ WF_vars(Connect)
    /\ WF_vars(ConnectFails \/ Connected(MaxSuccesses))
    /\ WF_vars(ConnectResolves)
    /\ WF_vars(RetryTimer)

-----------------------------------------------------------------------------
(* Properties.  They read `last`: the candidate the last handler screened   *)
(* (last.expense), the collection it was screened against (last.coll), the  *)
(* queries that failed (last.fails) and what each evaluator and detectFraud *)
(* returned.                                                                *)

\* detectFraud was called / returned a decision.
Ran == last.fraudResult.kind # "none"
Decided == last.fraudResult.kind = "return"

\* The documents of last.coll that satisfy a condition, by position.
Stored(Cond(_)) == {i \in DOMAIN last.coll : Cond(last.coll[i])}

\* C1: with no failing store query, the decision is flagged if and only if
\* at least one of the four evaluators returned a flagged verdict.
C1_FlaggedIffAnyVerdict ==
    (Decided /\ last.fails = {}) =>
        (last.fraudResult.value.isFlagged <=>
            \/ last.duplicateCheck.value.isFlagged
            \/ last.patternCheck.value.isFlagged
            \/ last.amountCheck.value.isFlagged
            \/ last.rapidCheck.value.isFlagged)

\* A decision flagged by the rapid-submission verdict alone.
C1_Witness ==
    /\ Decided /\ last.fails = {}
    /\ last.rapidCheck.value.isFlagged
    /\ ~last.duplicateCheck.value.isFlagged
    /\ ~last.patternCheck.value.isFlagged
    /\ ~last.amountCheck.value.isFlagged
    /\ last.fraudResult.value.isFlagged

\* The flagged ones among the four verdicts, in the order duplicate,
\* pattern, threshold, rapid.
FlaggedInOrder ==
    LET Only(v) == IF v.isFlagged THEN <<v>> ELSE <<>>
    IN  Only(last.duplicateCheck.value) \o Only(last.patternCheck.value)
        \o Only(last.amountCheck.value) \o Only(last.rapidCheck.value)

\* The reasons of at most four verdicts, separated by "; ".
ReasonsOf(ds) ==
    CASE Len(ds) = 0 -> ""
      [] Len(ds) = 1 -> ds[1].reason
      [] Len(ds) = 2 -> ds[1].reason \o "; " \o ds[2].reason
      [] Len(ds) = 3 -> ds[1].reason \o "; " \o ds[2].reason \o "; " \o ds[3].reason
      [] Len(ds) = 4 -> ds[1].reason \o "; " \o ds[2].reason \o "; " \o ds[3].reason
                        \o "; " \o ds[4].reason

\* C2: a returned decision's details are exactly the flagged verdicts in
\* the order duplicate, pattern, threshold, rapid, and its reason is their
\* reasons joined with "; " in that order.
C2_DetailsAndReasonInOrder ==
    Decided =>
        /\ last.fraudResult.value.details = FlaggedInOrder
        /\ last.fraudResult.value.reason = ReasonsOf(FlaggedInOrder)

\* A decision to which all four evaluators contributed.
C2_Witness ==
    /\ Decided
    /\ Len(last.fraudResult.value.details) = 4
    /\ last.fraudResult.value.reason =
         "Duplicate amount ($5000) found within 60 minutes; Round number amount; "
         \o "Very high amount ($5000) requires additional review; "
         \o "Too many submissions (6) within 30 minutes"

\* C3: when the store query of exactly one evaluator fails, detectFraud
\* still returns a decision, made of the verdicts of the other evaluators.
C3_SingleFailureStillDecides ==
    (Ran /\ Cardinality(last.fails) = 1) =>
        /\ Decided
        /\ last.fraudResult.value.details = FlaggedInOrder

\* The documents the duplicate-amount check is to find: same owner, equal
\* amount, date within 60 minutes before or after the candidate's, both
\* bounds included, another _id.
DuplicateMatches ==
    Stored(LAMBDA e : /\ e.userId = last.expense.userId
                      /\ e.amount = last.expense.amount
                      /\ last.expense.date - 60 <= e.date
                      /\ e.date <= last.expense.date + 60
                      /\ e._id # last.expense._id)

Persisted == Ran /\ Stored(LAMBDA e : e._id = last.expense._id) # {}

\* The store without the candidate's own document.
WithoutSelf == SelectSeq(last.coll, LAMBDA e : e._id # last.expense._id)

\* C5: screening a persisted candidate under its own _id, each of the three
\* queries returns what it would return were that document not in the store.
C5_SelfNeverMatches ==
    Persisted =>
        /\ duplicateQuery(last.expense, last.coll, FALSE)
             = duplicateQuery(last.expense, WithoutSelf, FALSE)
        /\ similarQuery(last.expense, last.coll, last.clock, FALSE)
             = similarQuery(last.expense, WithoutSelf, last.clock, FALSE)
        /\ rapidQuery(last.expense, last.coll, FALSE)
             = rapidQuery(last.expense, WithoutSelf, FALSE)

\* A persisted candidate whose own document has its owner, amount and date,
\* a matching description and a creation instant inside both windows, and
\* which the duplicate-amount check does not flag.
C5_Witness ==
    /\ Persisted /\ Decided /\ last.fails = {}
    /\ \E i \in DOMAIN last.coll :
          /\ last.coll[i]._id = last.expense._id
          /\ last.coll[i].amount = last.expense.amount
          /\ last.coll[i].date = last.expense.date
          /\ last.coll[i].description = last.expense.description
          /\ last.coll[i].createdAt >= last.expense.date - 30
          /\ last.coll[i].createdAt >= last.clock - 10080
    /\ ~last.duplicateCheck.value.isFlagged

\* The documents the rapid-submission check is to count: same owner,
\* another _id, created at or after the candidate's date minus 30 minutes.
RapidMatches ==
    Stored(LAMBDA e : /\ e.userId = last.expense.userId
                      /\ e._id # last.expense._id
                      /\ e.createdAt >= last.expense.date - 30)

\* C6: a failing query of the duplicate-amount check or of the
\* rapid-submission check gives the verdict of an empty result, unflagged
\* and without a reason, and the evaluator returns instead of throwing.
C6_FailOpen ==
    /\ (Ran /\ "duplicate" \in last.fails) =>
            last.duplicateCheck = Return([isFlagged |-> FALSE])
    /\ (Ran /\ "rapid" \in last.fails /\ last.patternCheck.kind = "return") =>
            last.rapidCheck = Return([isFlagged |-> FALSE])

\* The rapid query fails where a completed query would have flagged.
C6_Witness ==
    /\ Ran /\ "rapid" \in last.fails
    /\ Cardinality(RapidMatches) >= 5
    /\ last.rapidCheck = Return([isFlagged |-> FALSE])

\* C7: checkAmountThresholds has three outcomes: from 5000 on the "Very
\* high amount" verdict and not the "High amount" one, from 1000 to below
\* 5000 the "High amount" verdict, below 1000 an unflagged verdict.
C7_ThreeOutcomes ==
    last.amountCheck.kind = "return" =>
        LET amount == last.expense.amount
            shown == NumStr(amount)
            verdict == last.amountCheck.value
        IN  /\ amount >= 500000 =>
                /\ verdict = [isFlagged |-> TRUE,
                              reason |-> "Very high amount ($" \o shown
                                         \o ") requires additional review"]
                /\ verdict.reason # "High amount ($" \o shown \o ") flagged for review"
            /\ (amount >= 100000 /\ amount < 500000) =>
                verdict = [isFlagged |-> TRUE,
                           reason |-> "High amount ($" \o shown \o ") flagged for review"]
            /\ amount < 100000 => verdict = [isFlagged |-> FALSE]

\* The amount 5000 itself gets the "Very high amount" verdict.
C7_Witness ==
    /\ last.amountCheck.kind = "return"
    /\ last.expense.amount = 500000
    /\ last.amountCheck.value.reason
         = "Very high amount ($5000) requires additional review"

C9_CountedWithinWindow ==
    (last.rapidCheck.kind = "return" /\ last.rapidCheck.value.isFlagged) =>
        \A i \in RapidMatches :
            /\ last.coll[i].createdAt >= last.expense.date - 30
            /\ last.coll[i].createdAt <= last.expense.date

\* The amount is a multiple of 100, of 50 or of 25.
MultipleOf25 ==
    \/ last.expense.amount % 10000 = 0
    \/ last.expense.amount % 5000 = 0
    \/ last.expense.amount % 2500 = 0

\* The documents the repeated-description sub-check is to count.
SimilarMatches ==
    Stored(LAMBDA e : /\ e.userId = last.expense.userId
                      /\ RegexMatch(last.expense.description, e.description)
                      /\ e._id # last.expense._id
                      /\ e.createdAt >= last.clock - 10080)

Contains(text, part) ==
    \E start \in 0 .. (Len(text) - Len(part)) :
        \A i \in 1 .. Len(part) : Lower(part[i]) = Lower(text[start + i])

\* The records whose description contains the candidate's: same owner,
\* another _id, created within the 7 days before the screening.
ContainsMatches ==
    Stored(LAMBDA e : /\ e.userId = last.expense.userId
                      /\ Contains(e.description, last.expense.description)
                      /\ e._id # last.expense._id
                      /\ e.createdAt >= last.clock - 10080
                      /\ e.createdAt <= last.clock)

\* The pattern verdict carries the repeated-description fragment.
SimilarFired ==
    /\ last.patternCheck.kind = "return"
    /\ last.patternCheck.value.isFlagged
    /\ last.patternCheck.value.reason \in
          {"Similar descriptions in recent submissions",
           "Round number amount; Similar descriptions in recent submissions"}

\* C11: the store answering, the repeated-description sub-check fires if and
\* only if more than 2 records of the owner, other than the candidate, hold
\* the candidate's description (letter case ignored) and were created within
\* the 7 days before the screening.
C11_SimilarIffContains ==
    (Ran /\ "similar" \notin last.fails) =>
        /\ last.patternCheck.kind = "return"
        /\ SimilarFired <=> Cardinality(ContainsMatches) > 2

\* C12: a returned pattern verdict is unflagged when neither sub-check
\* fires, flagged with the one fragment when one fires, and flagged with
\* "Round number amount; Similar descriptions in recent submissions" when
\* both fire.
C12_OneVerdict ==
    last.patternCheck.kind = "return" =>
        LET round == MultipleOf25
            similar == Cardinality(SimilarMatches) > 2
        IN  last.patternCheck.value =
              IF round /\ similar
              THEN [isFlagged |-> TRUE,
                    reason |-> "Round number amount; Similar descriptions in recent submissions"]
              ELSE IF round
              THEN [isFlagged |-> TRUE, reason |-> "Round number amount"]
              ELSE IF similar
              THEN [isFlagged |-> TRUE,
                    reason |-> "Similar descriptions in recent submissions"]
              ELSE [isFlagged |-> FALSE]

\* Both sub-checks fire on one candidate.
C12_Witness ==
    /\ last.patternCheck.kind = "return"
    /\ MultipleOf25 /\ Cardinality(SimilarMatches) > 2
    /\ last.patternCheck.value.reason
         = "Round number amount; Similar descriptions in recent submissions"

\* The owner's other records created within the 7 days before the instant t.
RecentAt(t) ==
    Stored(LAMBDA e : /\ e.userId = last.expense.userId
                      /\ e._id # last.expense._id
                      /\ e.createdAt >= t - 10080)

\* C13 as stated: a second run of detectFraud on the same candidate and the
\* same store, at any moment from the first run on, returns the decision of
\* the first run.
C13_SameDecisionAnyMoment ==
    (Decided /\ last.fails = {}) =>
        \A t \in SimilarInstants :
            t >= last.clock =>
                detectFraud(last.expense, last.coll, t, {}).fraudResult
                    = last.fraudResult

\* C13: a second run of detectFraud on the same candidate and the same
\* store returns the decision of the first run whenever the same records of
\* the owner lie within the 7 days before the two moments.
C13_SameDecisionSameRecent ==
    (Decided /\ last.fails = {}) =>
        \A t \in SimilarInstants :
            RecentAt(t) = RecentAt(last.clock) =>
                detectFraud(last.expense, last.coll, t, {}).fraudResult
                    = last.fraudResult

\* A decision carrying the repeated-description fragment, and a different
\* moment before which the same records are recent.
C13_Witness ==
    /\ Decided /\ last.fails = {}
    /\ SimilarFired
    /\ \E t \in SimilarInstants :
          t # last.clock /\ RecentAt(t) = RecentAt(last.clock)

\* A verdict carries a reason, and a non-empty one, exactly when it is
\* flagged.
WellReasoned(v) ==
    IF v.isFlagged
    THEN "reason" \in DOMAIN v /\ v.reason # ""
    ELSE "reason" \notin DOMAIN v

\* C14: every verdict an evaluator returns has a non-empty reason if it is
\* flagged and no reason if it is not.
C14_ReasonIffFlagged ==
    \A check \in {last.duplicateCheck, last.patternCheck,
                  last.amountCheck, last.rapidCheck} :
        check.kind = "return" => WellReasoned(check.value)

\* Four returned verdicts, flagged ones and unflagged ones among them.
C14_Witness ==
    /\ Decided
    /\ last.duplicateCheck.value.isFlagged
    /\ last.rapidCheck.value.isFlagged
    /\ ~last.patternCheck.value.isFlagged
    /\ ~last.amountCheck.value.isFlagged

\* C16: the threshold verdict is the verdict of any candidate with the
\* same amount: of the candidate under another owner, date, description
\* and _id, and of every stored record with that amount.
C16_AmountAlone ==
    last.amountCheck.kind = "return" =>
        /\ checkAmountThresholds([last.expense EXCEPT !.userId = "u1", !.date = 0,
                                                      !.description = <<>>, !._id = 0])
             = last.amountCheck.value
        /\ checkAmountThresholds([last.expense EXCEPT !.userId = "u2", !.date = 1,
                                                      !.description = <<"b">>, !._id = 0])
             = last.amountCheck.value
        /\ \A i \in DOMAIN last.coll :
              last.coll[i].amount = last.expense.amount =>
                  checkAmountThresholds(last.coll[i]) = last.amountCheck.value

\* A flagged threshold verdict for a candidate whose amount a record of
\* another owner, created at another instant, also has.
C16_Witness ==
    /\ last.amountCheck.kind = "return"
    /\ last.amountCheck.value.isFlagged
    /\ \E i \in DOMAIN last.coll :
          /\ last.coll[i].amount = last.expense.amount
          /\ last.coll[i].userId # last.expense.userId
          /\ last.coll[i].createdAt # last.clock

\* C18: the record saved by createExpense has the decision's isFlagged and,
\* when the decision is flagged, its reason as flagReason and a flaggedAt.
C18_DecisionPersisted ==
    (last.op = "create" /\ last.status = 201) =>
        LET saved == expenses[Len(expenses)]
            decision == last.fraudResult.value
        IN  /\ saved._id = last.expense._id
            /\ saved.isFlagged = decision.isFlagged
            /\ decision.isFlagged =>
                  /\ saved.flagReason = Some(decision.reason)
                  /\ saved.flaggedAt # None

\* A record saved with the reason of a flagged decision.
C18_Witness ==
    /\ last.op = "create" /\ last.status = 201
    /\ last.fraudResult.value.isFlagged
    /\ expenses[Len(expenses)].flagReason
         = Some("Duplicate amount ($125.5) found within 60 minutes")

\* C20: a candidate whose amount is a multiple of 25 below 1000 and whose
\* owner has no records, screened with the store answering, gets the
\* decision flagged with the reason "Round number amount" and the pattern
\* verdict as its only detail; the other three evaluators do not flag.
C20_RoundAmountNoHistory ==
    (/\ Ran /\ last.fails = {}
     /\ last.expense.amount % 2500 = 0
     /\ last.expense.amount < 100000
     /\ Stored(LAMBDA e : e.userId = last.expense.userId) = {}) =>
        /\ last.fraudResult =
              Return([isFlagged |-> TRUE,
                      reason |-> "Round number amount",
                      details |-> <<[isFlagged |-> TRUE,
                                     reason |-> "Round number amount"]>>])
        /\ last.duplicateCheck = Return([isFlagged |-> FALSE])
        /\ last.amountCheck = Return([isFlagged |-> FALSE])
        /\ last.rapidCheck = Return([isFlagged |-> FALSE])

\* The amount 250.00 screened against a store that holds a record of
\* another owner with that amount and none of the candidate's owner.
C20_Witness ==
    /\ Ran /\ last.fails = {}
    /\ last.expense.amount = 25000
    /\ last.coll # <<>>
    /\ Stored(LAMBDA e : e.userId = last.expense.userId) = {}
    /\ Stored(LAMBDA e : e.amount = last.expense.amount) # {}
    /\ last.fraudResult.value.reason = "Round number amount"

C19_FraudRateIsString ==
    last.op = "stats" =>
        /\ last.stats.fraudRate.type = "string"
        /\ expenses = <<>> =>
              last.stats = [totalExpenses |-> 0, flaggedExpenses |-> 0,
                            pendingReview |-> 0, fraudRate |-> Str("0")]

\* C15: a step of detectFraud, in which one of its evaluators reads the
\* store, leaves the store and every field of the candidate as they were.
C15_ScreeningOnlyReads ==
    [][\A req \in inflight :
        (req.pc \in {"duplicate", "pattern", "rapid"} /\ req \notin inflight') =>
            /\ expenses' = expenses
            /\ \A next \in inflight' :
                  next.expense._id = req.expense._id => next.expense = req.expense]_vars

\* detectFraud is about to return a flagged decision for a candidate that
\* is still unflagged, against a store that holds a record.
C15_Witness ==
    \E req \in inflight :
        /\ req.pc = "save"
        /\ req.duplicateCheck.value.isFlagged
        /\ ~req.expense.isFlagged /\ req.expense.flagReason = None
        /\ Len(expenses) = 1

\* The records the duplicate-amount check is to find, in the store's order.
DuplicateRecords ==
    SelectSeq(last.coll,
        LAMBDA e : /\ e.userId = last.expense.userId
                   /\ e.amount = last.expense.amount
                   /\ last.expense.date - 60 <= e.date
                   /\ e.date <= last.expense.date + 60
                   /\ e._id # last.expense._id)

\* C21: when checkDuplicateAmounts flags, relatedExpenses has one entry per
\* matching record, with the record's id and the absolute difference in
\* minutes between the two dates, which lies between 0 and 60.
C21_EvidencePerMatch ==
    (last.duplicateCheck.kind = "return" /\ last.duplicateCheck.value.isFlagged) =>
        LET related == last.duplicateCheck.value.relatedExpenses
        IN  /\ Len(related) = Len(DuplicateRecords)
            /\ \A k \in DOMAIN related :
                  LET apart == DuplicateRecords[k].date - last.expense.date
                  IN  /\ related[k].id = DuplicateRecords[k]._id
                      /\ related[k].timeDifference
                            = (IF apart < 0 THEN 0 - apart ELSE apart)
                      /\ related[k].timeDifference >= 0
                      /\ related[k].timeDifference <= 60

\* Two entries: 15 for a record dated 15 minutes after the candidate, 60
\* for a record dated 60 minutes before it.
C21_Witness ==
    /\ last.duplicateCheck.kind = "return" /\ last.duplicateCheck.value.isFlagged
    /\ Len(last.duplicateCheck.value.relatedExpenses) = 2
    /\ \E k \in 1 .. 2 :
          LET entry == last.duplicateCheck.value.relatedExpenses[k]
          IN  entry.timeDifference = 15 /\ entry.date = last.expense.date + 15
    /\ \E k \in 1 .. 2 :
          LET entry == last.duplicateCheck.value.relatedExpenses[k]
          IN  entry.timeDifference = 60 /\ entry.date = last.expense.date - 60

\* C22: for a candidate of amount 5500 the threshold verdict is flagged with
\* the reason "Very high amount ($5500) requires additional review", and
\* when no other evaluator flags, that is the decision's reason.
C22_VeryHigh5500 ==
    (last.amountCheck.kind = "return" /\ last.expense.amount = 550000) =>
        /\ last.amountCheck.value =
              [isFlagged |-> TRUE,
               reason |-> "Very high amount ($5500) requires additional review"]
        /\ (/\ Decided
            /\ ~last.duplicateCheck.value.isFlagged
            /\ ~last.patternCheck.value.isFlagged
            /\ ~last.rapidCheck.value.isFlagged) =>
                last.fraudResult.value.reason
                  = "Very high amount ($5500) requires additional review"

\* The amount 5500 screened with no history: the threshold verdict is the
\* last of the decision's details.
C22_Witness ==
    /\ Decided /\ last.expense.amount = 550000 /\ last.coll = <<>>
    /\ last.amountCheck.value.reason
         = "Very high amount ($5500) requires additional review"
    /\ last.fraudResult.value.details[Len(last.fraudResult.value.details)]
         = last.amountCheck.value

\* The amount 5500 is a multiple of 100: its pattern verdict, when returned,
\* is flagged, and the decision's reason begins with the round-number
\* fragment.
Round5500 ==
    (Decided /\ last.expense.amount = 550000 /\ last.coll = <<>>) =>
        /\ last.patternCheck.value.isFlagged
        /\ last.fraudResult.value.reason =
              "Round number amount; Very high amount ($5500) requires additional review"

\* C23: the round-number sub-check fires for every amount that is a
\* multiple of 10, 25, 50 or 100.
C23_MultiplesOfTen ==
    (/\ last.patternCheck.kind = "return"
     /\ \/ last.expense.amount % 1000 = 0
        \/ last.expense.amount % 2500 = 0
        \/ last.expense.amount % 5000 = 0
        \/ last.expense.amount % 10000 = 0) =>
        /\ last.patternCheck.value.isFlagged
        /\ last.patternCheck.value.reason \in
              {"Round number amount",
               "Round number amount; Similar descriptions in recent submissions"}

\* C25: an updateExpense that answers 200 re-runs the screening if and only
\* if the request supplies an amount or a date; it then saves isFlagged,
\* flagReason and flaggedAt from the new decision, flaggedAt cleared when
\* the decision is unflagged; otherwise it leaves the three fields as they
\* were.
C25_RescreenIffAmountOrDate ==
    [][\A id \in 1 .. MaxEdits, u \in Users, b \in Edits, f \in EditFailures :
        (/\ last'.op = "update" /\ last'.status = 200
         /\ UpdateExpense(id, u, b.amount, b.description, b.date, f)) =>
            LET at == CHOOSE i \in DOMAIN expenses : expenses[i]._id = id
                before == expenses[at]
                after == expenses'[at]
                supplied == b.amount # None \/ b.date # None
            IN  /\ last'.fraudResult.kind # "none" <=> supplied
                /\ supplied =>
                      LET decision == last'.fraudResult.value
                      IN  /\ after.isFlagged = decision.isFlagged
                          /\ after.flagReason = Some(decision.reason)
                          /\ decision.isFlagged => after.flaggedAt = Some(now')
                          /\ ~decision.isFlagged => after.flaggedAt = None
                /\ ~supplied =>
                      /\ after.isFlagged = before.isFlagged
                      /\ after.flagReason = before.flagReason
                      /\ after.flaggedAt = before.flaggedAt]_vars

\* An update of the amount has re-screened a flagged record and cleared its
\* flag and flaggedAt.
C25_Witness ==
    /\ last.op = "update" /\ last.status = 200 /\ Decided
    /\ ~last.fraudResult.value.isFlagged
    /\ last.expense.isFlagged /\ last.expense.flaggedAt # None
    /\ \E i \in DOMAIN expenses :
          /\ expenses[i]._id = last.expense._id
          /\ ~expenses[i].isFlagged
          /\ expenses[i].flaggedAt = None

C24_ReviewedIsFrozen ==
    [][\A i \in DOMAIN expenses :
        expenses[i].status # "pending" =>
            \E j \in DOMAIN expenses' :
                /\ expenses'[j]._id = expenses[i]._id
                /\ expenses'[j].status = expenses[i].status
                /\ expenses'[j].reviewedBy = expenses[i].reviewedBy
                /\ expenses'[j].amount = expenses[i].amount
                /\ expenses'[j].date = expenses[i].date
                /\ expenses'[j].description = expenses[i].description]_vars

\* C28: every result of getFraudStatistics has
\* pendingReview <= flaggedExpenses <= totalExpenses.
C28_CountsOrdered ==
    last.op = "stats" =>
        /\ last.stats.pendingReview <= last.stats.flaggedExpenses
        /\ last.stats.flaggedExpenses <= last.stats.totalExpenses

\* The flag reasons that begin with the duplicate-amount fragment.
DuplicateReasons(amount) ==
    LET fragment == "Duplicate amount ($" \o NumStr(amount) \o ") found within 60 minutes"
    IN  {Some(fragment)} \cup
        {Some(fragment \o "; " \o rest) : rest \in
            {"Similar descriptions in recent submissions",
             "Rapid submissions: 5 expenses in 30 minutes",
             "Similar descriptions in recent submissions; Rapid submissions: 5 expenses in 30 minutes"}}

\* C26: of every two stored records of one owner with equal amounts and
\* dates at most 60 minutes apart, at least one is stored flagged with a
\* duplicate-amount reason.
C26_ConcurrentDuplicatesFlagged ==
    \A i, j \in DOMAIN expenses :
        (/\ i # j
         /\ expenses[i].userId = expenses[j].userId
         /\ expenses[i].amount = expenses[j].amount
         /\ Abs(expenses[i].date - expenses[j].date) <= DuplicateWindow) =>
            \E k \in {i, j} :
                /\ expenses[k].isFlagged
                /\ expenses[k].flagReason \in DuplicateReasons(expenses[k].amount)

\* The times of a sequence that lie after `from` and up to `to`.
Within(times, from, to) ==
    Len(SelectSeq(times, LAMBDA time : from < time /\ time <= to))

\* The instants a window can end at.
WindowEnds == {0} \cup LimiterInstants

\* C29, with the window read as closed at both ends: for each limiter and
\* address at most max admitted requests lie within any [t - windowMs, t].
C29_AtMostMaxInClosedWindow ==
    \A route \in Routes, ip \in Addresses, t \in WindowEnds :
        Within(admitted[route][ip], t - windowMs - 1, t) <= max

\* C29: for each limiter and address at most max admitted requests lie
\* within any window (t - windowMs, t]; a request that arrives when max
\* admitted requests lie within the windowMs before it is answered 429 and
\* no time is recorded for it.
C29_AtMostMaxPerWindow ==
    /\ [](\A route \in Routes, ip \in Addresses, t \in WindowEnds :
            Within(admitted[route][ip], t - windowMs, t) <= max)
    /\ [][\A route \in Routes, ip \in Addresses :
            (/\ AuthRateLimit(route, ip, MaxAdmitted)
             /\ Within(admitted[route][ip], now - windowMs, now) >= max) =>
                /\ last'.status = 429 /\ ~last'.next
                /\ admitted' = admitted
                /\ Within(requests'[route][ip], now - 1, now)
                      = Within(requests[route][ip], now - 1, now)
                /\ Len(requests'[route][ip]) <= Len(requests[route][ip])]_vars

\* An address admitted at 0, and max times since, is answered 429 one
\* window after 0.
C29_Witness ==
    /\ last.op = "authRateLimit" /\ last.status = 429 /\ now = windowMs
    /\ Within(admitted[last.route][last.ip], 0 - 1, 0) >= 1
    /\ Within(admitted[last.route][last.ip], 0, now) = max
    /\ Len(requests[last.route][last.ip]) = max

\* C30: retryCount never exceeds MAX_RETRIES; connect, when its await of
\* mongoose.connect succeeds, sets it to 0; while no attempt has succeeded
\* at most MAX_RETRIES retries are started; and unless some attempt
\* succeeds, the process exits with code 1.
C30_RetriesBoundedThenExit ==
    /\ [](retryCount <= MAX_RETRIES)
    /\ [][ConnectResolves => retryCount' = 0]_vars
    /\ [](history.successes = 0 => history.retries <= MAX_RETRIES)
    /\ [](exitCode # None => exitCode = Some(1) /\ retryCount = MAX_RETRIES)
    /\ <>(history.successes > 0 \/ exitCode = Some(1))

\* No attempt succeeded, the connection's events called retryConnection
\* beside the failed attempts, five retries were started and the process
\* has exited with code 1.
C30_Witness ==
    /\ history.successes = 0 /\ history.events = MaxEvents
    /\ history.retries = MAX_RETRIES
    /\ exitCode = Some(1)

====
